---- MODULE Spec2Model ----
(***************************************************************************)
(* Water Quality Trends (src/app.py): the cell parsers, the column         *)
(* detection, the target lookup, the monthly aggregation and the script's  *)
(* top-to-bottom run, as state machines.                                   *)
(*                                                                         *)
(* Text is a sequence of one-character strings.  A float is a normalised   *)
(* decimal m * 10^e (m not divisible by 10, or m = 0 and e = 0): the       *)
(* numerals the parser reads are short, so the decimal is the double it    *)
(* names.  A date is a day count from 1899-12-30 (the spreadsheet serial). *)
(***************************************************************************)
EXTENDS Integers, Sequences, FiniteSets, TLC

VARIABLES
  cell,        \* SpecParse: the cell handed to the parsers
  parsed,      \* SpecParse: what parse_result_to_float returned (or Pending)
  dated,       \* SpecParse: what parse_date_any returned (or Pending)
  columns,     \* SpecCols: the header of the sheet read, in source order
  roles,       \* SpecCols: the column found for each role (or NoRoles)
  csv,         \* SpecTargets: the targets file: readable, header, rows
  targets,     \* SpecTargets: what load_targets returned (or NotLoaded)
  lookups,     \* SpecTargets: the lookups made: parameter_sel and the line drawn
  pc,          \* the script's position: load, sidebar, filter, aggregate, plot, ...
  sheet,       \* the spreadsheet: its header and its raw rows
  data,        \* load_excel's table
  type_sel, parameter_sel, sites_sel, date_range,   \* the sidebar's widgets
  start_d, end_d,   \* the date filter's interval
  subset2,     \* the rows handed to the monthly aggregation
  monthly,     \* the monthly aggregation's rows
  failures     \* the load-level failures met in this run

parseVars == <<cell, parsed, dated>>
colVars == <<columns, roles>>
targetVars == <<csv, targets, lookups>>
selVars == <<type_sel, parameter_sel, sites_sel, date_range>>
runVars == <<pc, sheet, data, type_sel, parameter_sel, sites_sel, date_range,
             start_d, end_d, subset2, monthly, failures>>
vars == <<cell, parsed, dated, columns, roles, csv, targets, lookups,
          pc, sheet, data, type_sel, parameter_sel, sites_sel, date_range,
          start_d, end_d, subset2, monthly, failures>>

\* ------------------------------------------------------------------ bounds
MaxLen == 4        \* longest enumerated text cell
MaxCols == 3       \* most columns of a sheet header
MaxTargets == 2    \* most rows of the targets file
MaxLookups == 2    \* most target lookups followed
MaxRows == 3       \* most rows handed to the monthly aggregation on its own
MaxSheetRows == 2  \* most rows of the spreadsheet in a whole run

\* ------------------------------------------------------------ characters
Digits == <<"0", "1", "2", "3", "4", "5", "6", "7", "8", "9">>
UpperChars == <<"A", "B", "C", "D", "E", "F", "G", "H", "I", "J", "K", "L", "M",
                "N", "O", "P", "Q", "R", "S", "T", "U", "V", "W", "X", "Y", "Z">>
LowerChars == <<"a", "b", "c", "d", "e", "f", "g", "h", "i", "j", "k", "l", "m",
                "n", "o", "p", "q", "r", "s", "t", "u", "v", "w", "x", "y", "z">>

Range(f) == {f[i] : i \in DOMAIN f}
IndexOf(seq, c) == CHOOSE i \in DOMAIN seq : seq[i] = c

IsDigit(c) == c \in Range(Digits)
DigitVal(c) == IndexOf(Digits, c) - 1
IsUpper(c) == c \in Range(UpperChars)
IsLetter(c) == c \in Range(UpperChars) \cup Range(LowerChars)
\* \b of the re module: a word character is a letter, a digit or "_"
IsWordChar(c) == IsDigit(c) \/ IsLetter(c) \/ c = "_"
\* str.strip() removes whitespace; the texts of the model hold space and tab
IsSpace(c) == c \in {" ", "\t"}

\* str.lower(), character by character
LowerChar(c) == IF IsUpper(c) THEN LowerChars[IndexOf(UpperChars, c)] ELSE c
lower(s) == [i \in DOMAIN s |-> LowerChar(s[i])]

\* str.strip()
RECURSIVE lstrip(_)
lstrip(s) == IF s # <<>> /\ IsSpace(Head(s)) THEN lstrip(Tail(s)) ELSE s
RECURSIVE rstrip(_)
rstrip(s) == IF s # <<>> /\ IsSpace(s[Len(s)]) THEN rstrip(SubSeq(s, 1, Len(s) - 1)) ELSE s
strip(s) == rstrip(lstrip(s))

\* `tok in s`
contains(s, tok) ==
  \E i \in 1..(Len(s) - Len(tok) + 1) : SubSeq(s, i, i + Len(tok) - 1) = tok

\* s.replace(" ", "")
RECURSIVE remove_spaces(_)
remove_spaces(s) ==
  IF s = <<>> THEN <<>>
  ELSE IF Head(s) = " " THEN remove_spaces(Tail(s))
  ELSE <<Head(s)>> \o remove_spaces(Tail(s))

\* --------------------------------------------------------------- values
Pending == [k |-> "pending", m |-> 0, e |-> 0]
NoneV == [k |-> "none", m |-> 0, e |-> 0]
Raised == [k |-> "raise", m |-> 0, e |-> 0]

RECURSIVE NormFloat(_, _)
NormFloat(m, e) ==
  IF m = 0 THEN [k |-> "float", m |-> 0, e |-> 0]
  ELSE IF m % 10 = 0 THEN NormFloat(m \div 10, e + 1)
  ELSE [k |-> "float", m |-> m, e |-> e]

RECURSIVE NumDigits(_)
NumDigits(n) == IF n < 10 THEN 1 ELSE 1 + NumDigits(n \div 10)
Abs(n) == IF n < 0 THEN -n ELSE n

\* ------------------------------------------------------------- calendar
\* The proleptic Gregorian calendar pandas' Timestamp uses, on day counts
\* from 1970-01-01; a serial is a day count from 1899-12-30.
EpochSerial == 25569      \* 1970-01-01 as a serial: days from 1899-12-30

DaysFromCivil(y, mo, d) ==
  LET yy == IF mo <= 2 THEN y - 1 ELSE y
      era == yy \div 400
      yoe == yy - era * 400
      mp == IF mo > 2 THEN mo - 3 ELSE mo + 9
      doy == (153 * mp + 2) \div 5 + d - 1
      doe == yoe * 365 + yoe \div 4 - yoe \div 100 + doy
  IN era * 146097 + doe - 719468

CivilFromDays(z0) ==
  LET z == z0 + 719468
      era == z \div 146097
      doe == z - era * 146097
      yoe == (doe - doe \div 1460 + doe \div 36524 - doe \div 146096) \div 365
      doy == doe - (365 * yoe + yoe \div 4 - yoe \div 100)
      mp == (5 * doy + 2) \div 153
      d == doy - (153 * mp + 2) \div 5 + 1
      mo == IF mp < 10 THEN mp + 3 ELSE mp - 9
      y == yoe + era * 400 + (IF mo <= 2 THEN 1 ELSE 0)
  IN [y |-> y, mo |-> mo, d |-> d]

SerialOf(y, mo, d) == DaysFromCivil(y, mo, d) + EpochSerial
CivilOf(serial) == CivilFromDays(serial - EpochSerial)

IsLeap(y) == (y % 4 = 0 /\ y % 100 # 0) \/ y % 400 = 0
DaysInMonth(y, mo) ==
  IF mo = 2 THEN (IF IsLeap(y) THEN 29 ELSE 28)
  ELSE IF mo \in {4, 6, 9, 11} THEN 30 ELSE 31
ValidDate(y, mo, d) == mo \in 1..12 /\ d >= 1 /\ d <= DaysInMonth(y, mo)

\* A Timestamp (date part) or NaT
NaT == [k |-> "nat", n |-> 0]
Ts(n) == [k |-> "ts", n |-> n]
PendingDate == [k |-> "pending", n |-> 0]

\* ----------------------------------------------------------------- cells
\* An untyped spreadsheet cell: None, float NaN, float inf, bool (m), int
\* (m * 10^e, e >= 0), float (m * 10^e), str (s), datetime (serial m).
Cell(k, s, m, e) == [k |-> k, s |-> s, m |-> m, e |-> e]
NoneCell == Cell("none", <<>>, 0, 0)
NaNCell == Cell("nan", <<>>, 0, 0)
InfCell == Cell("inf", <<>>, 0, 0)
BoolCell(b) == Cell("bool", <<>>, b, 0)
IntCell(m, e) == Cell("int", <<>>, m, e)
FloatCell(m, e) == Cell("float", <<>>, m, e)
StrCell(s) == Cell("str", s, 0, 0)
DateCell(n) == Cell("datetime", <<>>, n, 0)

\* the decimal digits of a natural number, zero-padded to w characters
RECURSIVE NatToChars(_, _)
NatToChars(n, w) ==
  IF w <= 1 /\ n < 10 THEN <<Digits[n + 1]>>
  ELSE NatToChars(n \div 10, w - 1) \o <<Digits[(n % 10) + 1]>>

\* str(x) of a cell that is not a number
str(x) ==
  CASE x.k = "str" -> x.s
    [] x.k = "bool" -> IF x.m = 1 THEN <<"T", "r", "u", "e">>
                       ELSE <<"F", "a", "l", "s", "e">>
    [] x.k = "nan" -> <<"n", "a", "n">>
    [] x.k = "datetime" ->
         LET c == CivilOf(x.m)
         IN NatToChars(c.y, 4) \o <<"-">> \o NatToChars(c.mo, 2) \o <<"-">>
            \o NatToChars(c.d, 2) \o <<" ", "0", "0", ":", "0", "0", ":", "0", "0">>
    [] OTHER -> <<>>

\* ------------------------------------------------ parse_result_to_float
_NUM_TXT_ZERO ==
  { <<"n", "d">>, <<"n", "/", "d">>,
    <<"n", "o", "t", " ", "d", "e", "t", "e", "c", "t", "e", "d">>,
    <<"b", "d", "l">>,
    <<"b", "e", "l", "o", "w", " ", "d", "e", "t", "e", "c", "t", "i", "o", "n">>,
    <<"n", "a">>, <<"n", "/", "a">> }
ZeroTokens == { <<" ", "n", "d">>, <<" ", "b", "d", "l">> }

\* line 70 without the case-folding
is_non_detect_cased(s) ==
  s \in _NUM_TXT_ZERO \/ \E tok \in ZeroTokens : contains(s, tok)

\* line 70: the text is a non-detect
is_non_detect(s) ==
  lower(s) \in _NUM_TXT_ZERO \/ \E tok \in ZeroTokens : contains(lower(s), tok)

\* the largest decimal exponent of a finite double (1.797e308)
FloatMaxExp10 == 308

\* float(x) of an int: OverflowError past the largest double
float_of_int(m, e) ==
  IF m # 0 /\ NumDigits(Abs(m)) + e > FloatMaxExp10 THEN Raised ELSE NormFloat(m, e)

\* re.sub(r"(?<=\d),(?=\d{3}\b)", "", s): the places of the commas removed
thousands_commas(s) ==
  { p \in 2..(Len(s) - 3) :
      /\ s[p] = ","
      /\ IsDigit(s[p - 1])
      /\ \A q \in (p + 1)..(p + 3) : IsDigit(s[q])
      /\ (p + 3 = Len(s) \/ ~IsWordChar(s[p + 4])) }

RECURSIVE drop_places(_, _, _)
drop_places(s, ps, i) ==
  IF i > Len(s) THEN <<>>
  ELSE (IF i \in ps THEN <<>> ELSE <<s[i]>>) \o drop_places(s, ps, i + 1)

remove_thousands(s) == drop_places(s, thousands_commas(s), 1)

\* the digits from place j on
RECURSIVE digit_run(_, _)
digit_run(s, j) == IF j <= Len(s) /\ IsDigit(s[j]) THEN 1 + digit_run(s, j + 1) ELSE 0

\* re.match of [-+]?\d*\.?\d+ at place i: the last place matched, 0 for none.
\* The sign is taken when there; \d* takes the whole run; "." is taken when
\* digits follow it; otherwise the run itself must hold a digit.
match_number_at(s, i) ==
  LET j == IF i <= Len(s) /\ s[i] \in {"-", "+"} THEN i + 1 ELSE i
      r == digit_run(s, j)
      f == IF j + r <= Len(s) /\ s[j + r] = "." THEN digit_run(s, j + r + 1) ELSE 0
  IN IF f > 0 THEN j + r + f
     ELSE IF r > 0 THEN j + r - 1
     ELSE 0

\* re.search: the leftmost match, <<>> for none
search_number(s) ==
  IF \E i \in 1..Len(s) : match_number_at(s, i) > 0
  THEN LET i == CHOOSE i \in 1..Len(s) :
                  /\ match_number_at(s, i) > 0
                  /\ \A h \in 1..(i - 1) : match_number_at(s, h) = 0
       IN SubSeq(s, i, match_number_at(s, i))
  ELSE <<>>

RECURSIVE digits_to_nat(_)
digits_to_nat(s) ==
  IF s = <<>> THEN 0 ELSE 10 * digits_to_nat(SubSeq(s, 1, Len(s) - 1)) + DigitVal(s[Len(s)])

\* float(text) of a text search_number matched
float_of_text(t) ==
  LET neg == t[1] = "-"
      body == IF t[1] \in {"-", "+"} THEN Tail(t) ELSE t
      r == digit_run(body, 1)
      frac == IF r < Len(body) THEN SubSeq(body, r + 2, Len(body)) ELSE <<>>
      n == digits_to_nat(SubSeq(body, 1, r) \o frac)
  IN NormFloat(IF neg THEN -n ELSE n, -Len(frac))

parse_text(s0) ==
  LET s == strip(s0) IN
  IF s = <<>> THEN NoneV
  ELSE IF is_non_detect(s) THEN NormFloat(0, 0)
  ELSE LET t == search_number(remove_thousands(remove_spaces(s)))
       IN IF t = <<>> THEN NoneV ELSE float_of_text(t)

parse_result_to_float(x) ==
  IF x.k \in {"none", "nan"} THEN NoneV
  ELSE IF x.k = "int" THEN float_of_int(x.m, x.e)
  ELSE IF x.k = "float" THEN NormFloat(x.m, x.e)
  ELSE IF x.k = "inf" THEN [k |-> "inf", m |-> 0, e |-> 0]
  ELSE parse_text(str(x))

\* ------------------------------------------------------- parse_date_any
RECURSIVE Pow10(_)
Pow10(n) == IF n <= 0 THEN 1 ELSE 10 * Pow10(n - 1)

\* Timestamp/Timedelta limits (int64 nanoseconds) as days
MinSerial == -81182       \* 1677-09-22, the first whole day of a Timestamp
MaxDeltaDays == 106751    \* the longest Timedelta (2^63 ns) in whole days

\* int(x) of the number m * 10^e, truncated towards zero
trunc_int(m, e) ==
  IF m = 0 THEN 0
  ELSE IF e >= 0 THEN m * Pow10(e)
  ELSE IF m >= 0 THEN m \div Pow10(-e) ELSE -((-m) \div Pow10(-e))

\* line 46: epoch 1899-12-30 plus int(x) days, when the sum is a Timestamp
serial_in_range(m, e) ==
  /\ (m = 0 \/ NumDigits(Abs(m)) + e <= 6)
  /\ trunc_int(m, e) >= MinSerial
  /\ trunc_int(m, e) <= MaxDeltaDays

\* line 51 on a number: to_datetime reads it as nanoseconds from 1970-01-01.
\* Whole days of m * 10^e ns (a day is 864 * 10^11 ns).
epoch_days(m, e) ==
  IF m = 0 THEN 0
  ELSE IF e >= 11 THEN (m * Pow10(e - 11)) \div 864
  ELSE IF e >= 5 THEN m \div (864 * Pow10(11 - e))
  ELSE IF m < 0 THEN -1 ELSE 0

number_as_ns(m, e) ==
  IF m # 0 /\ NumDigits(Abs(m)) + e >= 20 THEN {NaT}
  ELSE IF epoch_days(m, e) > MaxDeltaDays \/ epoch_days(m, e) < -MaxDeltaDays - 1 THEN {NaT}
  ELSE {NaT, Ts(EpochSerial + epoch_days(m, e))}

\* a text of the shape dd/dd/dddd
is_date_text(s) ==
  /\ Len(s) = 10
  /\ s[3] = "/" /\ s[6] = "/"
  /\ \A i \in {1, 2, 4, 5, 7, 8, 9, 10} : IsDigit(s[i])

\* to_datetime(text, dayfirst=True): day before month when that is a date,
\* month before day otherwise, NaT when neither is
date_of_text(s) ==
  LET a == digits_to_nat(SubSeq(s, 1, 2))
      b == digits_to_nat(SubSeq(s, 4, 5))
      y == digits_to_nat(SubSeq(s, 7, 10))
  IN IF ValidDate(y, b, a) THEN Ts(SerialOf(y, b, a))
     ELSE IF ValidDate(y, a, b) THEN Ts(SerialOf(y, a, b))
     ELSE NaT

\* what to_datetime may make of a text of another shape: NaT, or some date
\* of the parser's own reading
OtherTextDates == {NaT, Ts(SerialOf(2024, 1, 5))}

\* The outcomes of parse_date_any(x): every path returns, the last two
\* through `except Exception`.
parse_date_any(x) ==
  IF x.k \in {"none", "nan"} THEN {NaT}
  ELSE IF x.k \in {"int", "float"} /\ serial_in_range(x.m, x.e)
    THEN {Ts(trunc_int(x.m, x.e))}
  ELSE IF x.k \in {"int", "float"} THEN number_as_ns(x.m, x.e)
  ELSE IF x.k = "datetime" THEN {Ts(x.m)}
  ELSE IF x.k = "str" /\ is_date_text(x.s) THEN {date_of_text(x.s)}
  ELSE IF x.k = "str" /\ strip(x.s) # <<>> THEN OtherTextDates
  ELSE {NaT}

\* ------------------------------------------------- the parts not running
NoRoles == [type |-> <<>>, site |-> <<>>, param |-> <<>>, unit |-> <<>>,
            result |-> <<>>, date |-> <<>>]
NotLoaded == [k |-> "notloaded", rows |-> <<>>]
NoTargets == [k |-> "none", rows |-> <<>>]
NoCsv == [readable |-> FALSE, header |-> <<>>, rows |-> <<>>]

IdleParse == cell = NoneCell /\ parsed = Pending /\ dated = PendingDate
IdleCols == columns = <<>> /\ roles = NoRoles
IdleTargets == csv = NoCsv /\ targets = NotLoaded /\ lookups = <<>>
Null == "<null>"           \* None / NaN in a text column
NoRange == [k |-> "none", s |-> 0, e |-> 0]
NoSheet == [header |-> <<>>, rows |-> <<>>]
IdleRun ==
  /\ pc = "idle" /\ sheet = NoSheet /\ data = <<>>
  /\ type_sel = Null /\ parameter_sel = Null /\ sites_sel = {} /\ date_range = NoRange
  /\ start_d = NaT /\ end_d = NaT /\ subset2 = <<>> /\ monthly = <<>> /\ failures = {}

\* -------------------------------------------------------------- SpecParse
\* The cells the parsers are tried on.
UpperChar(c) == IF c \in Range(LowerChars) THEN UpperChars[IndexOf(LowerChars, c)] ELSE c
upper(s) == [i \in DOMAIN s |-> UpperChar(s[i])]
capitalize(s) == [i \in DOMAIN s |-> IF i = 1 THEN UpperChar(s[i]) ELSE s[i]]

Texts(A, n) == UNION {[1..k -> A] : k \in 0..n}

NdChars == {"n", "d", "N", " ", "a", "/", "1"}
NumChars == {"0", "5", ",", "-", "."}
Pads == {<<>>, <<" ">>, <<"\t">>}

TokenTexts ==
  { l \o v \o r :
      l \in Pads, r \in Pads,
      v \in UNION {{t, upper(t), capitalize(t)} : t \in _NUM_TXT_ZERO} }
  \cup { pre \o upper(t) \o post :
           pre \in {<<"1">>, <<"<">>}, t \in ZeroTokens, post \in {<<>>, <<"x">>} }

OtherTexts ==
  { <<"<", "1">>, <<"1", "0", " ", "0", "0", "0">>, <<"1", ",", "2", "3", "4">>,
    <<"1", ",", "2", "3", "4", ",", "5", "6", "7">>, <<"1", ",", "2", "3", "4", "m", "g">>,
    <<"7", ".", "1", " ", "m", "g", "/", "L">>, <<"a", "b", "c">>,
    <<"2", "0", "/", "0", "1", "/", "2", "0", "2", "4">>,
    <<"0", "1", "/", "2", "0", "/", "2", "0", "2", "4">>,
    <<"3", "1", "/", "0", "2", "/", "2", "0", "2", "4">>,
    <<"4", "0", "/", "4", "0", "/", "2", "0", "2", "4">> }

HugeExp == 400     \* an int of 401 digits: 10^400

NumberCells ==
  { IntCell(m, e) : m \in {-100000, -1, 0, 1, 44562, 45311, 200000}, e \in {0} }
  \cup { IntCell(m, e) : m \in {-1, 1, 95}, e \in {12, 17, 18, HugeExp} }
  \cup { FloatCell(m, e) : m \in {-15, 0, 75, 453115}, e \in {-1, 0, 15} }

Cells ==
  {NoneCell, NaNCell, InfCell, BoolCell(0), BoolCell(1), DateCell(45311)}
  \cup NumberCells
  \cup { StrCell(s) : s \in Texts(NdChars, MaxLen) \cup Texts(NumChars, MaxLen + 1)
                            \cup TokenTexts \cup OtherTexts }

InitParse ==
  /\ cell \in Cells
  /\ parsed = Pending
  /\ dated = PendingDate
  /\ IdleCols /\ IdleTargets /\ IdleRun

\* data["Result"].map(parse_result_to_float), one cell
ParseResult ==
  /\ parsed = Pending /\ dated = PendingDate
  /\ parsed' = parse_result_to_float(cell)
  /\ UNCHANGED <<cell, dated, colVars, targetVars, runVars>>

\* data["DateRaw"].map(parse_date_any), one cell
ParseDate ==
  /\ parsed = Pending /\ dated = PendingDate
  /\ dated' \in parse_date_any(cell)
  /\ UNCHANGED <<cell, parsed, colVars, targetVars, runVars>>

NextParse == ParseResult \/ ParseDate

SpecParse == InitParse /\ [][NextParse]_vars

Zero == NormFloat(0, 0)

\* The non-detect words and tokens as the specification lists them.
ClaimZeroWords ==
  { <<"n", "d">>, <<"n", "/", "d">>,
    <<"n", "o", "t", " ", "d", "e", "t", "e", "c", "t", "e", "d">>,
    <<"b", "d", "l">>,
    <<"b", "e", "l", "o", "w", " ", "d", "e", "t", "e", "c", "t", "i", "o", "n">>,
    <<"n", "a">>, <<"n", "/", "a">> }
ClaimNonDetect(s) ==
  LET t == lower(strip(s))
  IN t \in ClaimZeroWords \/ contains(t, <<" ", "n", "d">>)
       \/ contains(t, <<" ", "b", "d", "l">>)

\* C3: parse_result_to_float returns 0.0, not absent, for every text that,
\* trimmed and case-folded, is one of nd, n/d, not detected, bdl, below
\* detection, na, n/a or contains " nd" or " bdl"; na and n/a give 0.0.
C3_NonDetectIsZero ==
  (cell.k = "str" /\ parsed # Pending /\ ClaimNonDetect(cell.s)) => parsed = Zero

\* C3's case: a padded, upper-case NA was parsed, to 0.0
C3_Witness ==
  /\ cell.k = "str" /\ parsed = Zero
  /\ cell.s = <<" ", "N", "A">>

\* sign? digits , digits: the places of the parts, when the text has the form
IsCommaNumeral(s) ==
  \E c \in 2..(Len(s) - 1) :
    /\ s[c] = ","
    /\ LET j == IF s[1] \in {"-", "+"} THEN 2 ELSE 1
       IN /\ j < c
          /\ \A i \in j..(c - 1) : IsDigit(s[i])
          /\ \A i \in (c + 1)..Len(s) : IsDigit(s[i])
CommaAt(s) == CHOOSE c \in 1..Len(s) : s[c] = ","

\* C4 (as claimed): a comma followed by exactly three digits is dropped as a
\* thousands separator ("1,234" is 1234.0); in any other text of the form
\* sign? digits , digits the comma is the decimal point ("0,5" is 0.5).
C4_CommaByPosition ==
  (cell.k = "str" /\ parsed # Pending /\ IsCommaNumeral(cell.s)) =>
    LET s == cell.s
        c == CommaAt(s)
    IN IF Len(s) - c = 3
       THEN parsed = float_of_text(SubSeq(s, 1, c - 1) \o SubSeq(s, c + 1, Len(s)))
       ELSE parsed = float_of_text([s EXCEPT ![c] = "."])

\* C8 (as claimed): neither parser ends in an error, whatever the cell.
C8_ParsersTotal == parsed.k # "raise" /\ dated.k # "raise"

\* --------------------------------------------------------------- SpecCols
\* _coalesce_cols over the sheet's header, as load_excel calls it.
NoCol == <<"<None>">>

TypeCandidates == << <<"T", "y", "p", "e">>, <<"T", "Y", "P", "E">> >>
SiteCandidates ==
  << <<"S", "i", "t", "e", " ", "I", "D">>, <<"S", "i", "t", "e", "I", "D">>,
     <<"S", "i", "t", "e">>, <<"B", "o", "r", "e", "h", "o", "l", "e">>,
     <<"S", "i", "t", "e", " ", "I", "d">> >>
ParamCandidates ==
  << <<"P", "a", "r", "a", "m", "e", "t", "e", "r">>,
     <<"P", "A", "R", "A", "M", "E", "T", "E", "R">> >>
UnitCandidates == << <<"U", "n", "i", "t">>, <<"U", "n", "i", "t", "s">> >>
ResultCandidates ==
  << <<"R", "e", "s", "u", "l", "t">>, <<"V", "a", "l", "u", "e">>,
     <<"R", "E", "S", "U", "L", "T">> >>
DateCandidates ==
  << <<"D", "a", "t", "e">>, <<"S", "a", "m", "p", "l", "e", " ", "D", "a", "t", "e">>,
     <<"D", "a", "t", "e", "S", "a", "m", "p", "l", "e", "d">>,
     <<"D", "a", "t", "e", "C", "l", "e", "a", "n">>, <<"D", "A", "T", "E">> >>

\* the first column of the sheet that is a candidate: the loops swapped
_coalesce_cols_by_column(cols, candidates) ==
  IF \E i \in DOMAIN cols : cols[i] \in Range(candidates)
  THEN cols[CHOOSE i \in DOMAIN cols :
                 /\ cols[i] \in Range(candidates)
                 /\ \A h \in 1..(i - 1) : cols[h] \notin Range(candidates)]
  ELSE NoCol

\* for c in candidates: if c in df.cols: return c; return None
_coalesce_cols(cols, candidates) ==
  IF \E i \in DOMAIN candidates : candidates[i] \in Range(cols)
  THEN candidates[CHOOSE i \in DOMAIN candidates :
                    /\ candidates[i] \in Range(cols)
                    /\ \A h \in 1..(i - 1) : candidates[h] \notin Range(cols)]
  ELSE NoCol

\* lines 115-120: the six roles of load_excel
detect_roles(cols) ==
  [ type |-> _coalesce_cols(cols, TypeCandidates),
    site |-> _coalesce_cols(cols, SiteCandidates),
    param |-> _coalesce_cols(cols, ParamCandidates),
    unit |-> _coalesce_cols(cols, UnitCandidates),
    result |-> _coalesce_cols(cols, ResultCandidates),
    date |-> _coalesce_cols(cols, DateCandidates) ]

HeaderLabels ==
  { <<"T", "y", "p", "e">>, <<"T", "Y", "P", "E">>,
    <<"S", "i", "t", "e", " ", "I", "D">>, <<"S", "i", "t", "e">>,
    <<"P", "a", "r", "a", "m", "e", "t", "e", "r">>,
    <<"R", "e", "s", "u", "l", "t">>, <<"V", "a", "l", "u", "e">>,
    <<"D", "a", "t", "e">>, <<"S", "a", "m", "p", "l", "e", " ", "D", "a", "t", "e">>,
    <<"D", "A", "T", "E">>,
    <<"S", "a", "m", "p", "l", "i", "n", "g", " ", "d", "a", "t", "e">>,
    <<"C", "o", "m", "m", "e", "n", "t", "s">> }

\* line 112: data.loc[:, ~pd.Index(data.columns).duplicated()]
RECURSIVE drop_duplicated(_)
drop_duplicated(cols) ==
  IF cols = <<>> THEN <<>>
  ELSE LET init == SubSeq(cols, 1, Len(cols) - 1)
           last == cols[Len(cols)]
       IN IF last \in Range(init) THEN drop_duplicated(init)
          ELSE drop_duplicated(init) \o <<last>>

InitCols ==
  /\ columns \in UNION {[1..n -> HeaderLabels] : n \in 0..MaxCols}
  /\ roles = NoRoles
  /\ IdleParse /\ IdleTargets /\ IdleRun

\* load_excel, lines 110-120
DetectColumns ==
  /\ roles = NoRoles
  /\ roles' = detect_roles(drop_duplicated(columns))
  /\ UNCHANGED <<columns, parseVars, targetVars, runVars>>

NextCols == DetectColumns

SpecCols == InitCols /\ [][NextCols]_vars

RoleCandidates ==
  [type |-> TypeCandidates, site |-> SiteCandidates, param |-> ParamCandidates,
   unit |-> UnitCandidates, result |-> ResultCandidates, date |-> DateCandidates]
RoleNames == {"type", "site", "param", "unit", "result", "date"}

\* C6 (as amended): each role gets the column equal to the earliest candidate,
\* in candidate order, that is a column of the sheet, whatever the columns'
\* order; it gets none exactly when no candidate is a column: there is no
\* fallback to a column whose label contains a substring.
C6_EarliestCandidate ==
  roles # NoRoles =>
    \A r \in RoleNames :
      LET cs == RoleCandidates[r] IN
      /\ roles[r] = NoCol <=> \A i \in DOMAIN cs : cs[i] \notin Range(columns)
      /\ roles[r] # NoCol =>
           \E i \in DOMAIN cs :
             /\ cs[i] = roles[r]
             /\ cs[i] \in Range(columns)
             /\ \A h \in 1..(i - 1) : cs[h] \notin Range(columns)

\* C6's case: two date candidates are columns, the later candidate first in
\* the sheet, and the earlier candidate is the one returned
C6_Witness ==
  /\ roles # NoRoles
  /\ Len(columns) >= 2
  /\ columns[1] = DateCandidates[2] /\ columns[2] = DateCandidates[1]
  /\ roles.date = DateCandidates[1]

\* C6 (as claimed): when no date candidate is a column, the first column in
\* source order whose case-folded label contains "date" is the date column.
C6_FallbackSubstring ==
  (roles # NoRoles /\ \A i \in DOMAIN DateCandidates : DateCandidates[i] \notin Range(columns)) =>
    \A i \in DOMAIN columns :
      (/\ contains(lower(columns[i]), <<"d", "a", "t", "e">>)
       /\ \A h \in 1..(i - 1) : ~contains(lower(columns[h]), <<"d", "a", "t", "e">>))
      => roles.date = columns[i]

\* ------------------------------------------------------------ SpecTargets
\* load_targets and the lookup of the Max target line (lines 327-343).
ParameterName == <<"P", "a", "r", "a", "m", "e", "t", "e", "r">>
MaxTargetName == <<"M", "a", "x", "T", "a", "r", "g", "e", "t">>
MaxTargetKeys == { <<"m", "a", "x", "t", "a", "r", "g", "e", "t">>, <<"m", "a", "x">> }

\* the first of the columns at the indices hits renamed to name, when name is
\* no column yet (the for loops of lines 167-176 with their break)
rename_first(cols, hits, name) ==
  IF name \in Range(cols) \/ hits = {} THEN cols
  ELSE LET i == CHOOSE i \in hits : \A h \in hits : i <= h
       IN [cols EXCEPT ![i] = name]

targets_columns(header) ==
  LET stripped == [i \in DOMAIN header |-> strip(header[i])]
      params == {i \in DOMAIN stripped : lower(stripped[i]) = lower(ParameterName)}
      named == rename_first(stripped, params, ParameterName)
      maxes == {i \in DOMAIN named : remove_spaces(lower(named[i])) \in MaxTargetKeys}
  IN rename_first(named, maxes, MaxTargetName)

ColumnIndex(cols, name) == CHOOSE i \in DOMAIN cols : cols[i] = name

load_targets(file) ==
  IF ~file.readable THEN NoTargets
  ELSE LET cols == targets_columns(file.header) IN
       IF ParameterName \in Range(cols) /\ MaxTargetName \in Range(cols)
       THEN [k |-> "table",
             rows |-> [i \in DOMAIN file.rows |->
                         [Parameter |-> file.rows[i][ColumnIndex(cols, ParameterName)],
                          MaxTarget |-> file.rows[i][ColumnIndex(cols, MaxTargetName)]]]]
       ELSE NoTargets

\* float(v) of a MaxTarget value: a number as it is, a text when all of it is
\* a numeral, ValueError (Raised) otherwise
py_float(x) ==
  IF x.k \in {"int", "float"} THEN NormFloat(x.m, x.e)
  ELSE IF x.k = "nan" THEN [k |-> "nan", m |-> 0, e |-> 0]
  ELSE IF x.k = "str" /\ strip(x.s) # <<>>
          /\ match_number_at(strip(x.s), 1) = Len(strip(x.s))
    THEN float_of_text(strip(x.s))
  ELSE Raised

\* targets["Parameter"].astype(str) == str(parameter_sel)
same_parameter(c, psel) == str(c) = psel

\* lines 328-343: the y of the Max target line drawn, NoneV when none is
lookup_target(tdf, psel) ==
  IF tdf.k # "table" THEN NoneV
  ELSE LET hits == {i \in DOMAIN tdf.rows : same_parameter(tdf.rows[i].Parameter, psel)}
       IN IF hits = {} THEN NoneV
          ELSE LET first == CHOOSE i \in hits : \A h \in hits : i <= h
                   y == py_float(tdf.rows[first].MaxTarget)
               IN IF y = Raised THEN NoneV ELSE y

ParamNames ==
  { <<"p", "H">>, <<"P", "H">>, <<" ", "p", "h", " ">>, <<"F", "e">> }
TargetValues ==
  { FloatCell(85, -1), IntCell(9, 0), StrCell(<<"8", ".", "5", ",", "9">>) }
ParamHeaders ==
  { ParameterName, <<" ", "p", "a", "r", "a", "m", "e", "t", "e", "r", " ">>,
    <<"P", "a", "r", "a", "m">> }
TargetHeaders ==
  { MaxTargetName, <<"M", "a", "x", " ", "T", "a", "r", "g", "e", "t">>,
    <<"m", "a", "x">>, <<"L", "i", "m", "i", "t">> }

InitTargets ==
  /\ \/ csv = NoCsv
     \/ \E ph \in ParamHeaders, th \in TargetHeaders :
        \E rows \in UNION {[1..n -> {<<StrCell(nm), v>> : nm \in ParamNames, v \in TargetValues}]
                             : n \in 0..MaxTargets} :
          csv = [readable |-> TRUE, header |-> <<ph, th>>, rows |-> rows]
  /\ targets = NotLoaded
  /\ lookups = <<>>
  /\ IdleParse /\ IdleCols /\ IdleRun

\* targets = load_targets(), line 183
LoadTargets ==
  /\ targets = NotLoaded
  /\ targets' = load_targets(csv)
  /\ UNCHANGED <<csv, lookups, parseVars, colVars, runVars>>

\* one run's lines 327-343 with the parameter selected in that run
TargetLookup ==
  /\ targets # NotLoaded
  /\ Len(lookups) < MaxLookups
  /\ \E p \in ParamNames :
       lookups' = Append(lookups, [param |-> p, y |-> lookup_target(targets, p)])
  /\ UNCHANGED <<csv, targets, parseVars, colVars, runVars>>

NextTargets == LoadTargets \/ TargetLookup

SpecTargets == InitTargets /\ [][NextTargets]_vars

\* str.split/join as clean_header does it: runs of spaces collapsed
RECURSIVE collapse_spaces(_)
collapse_spaces(s) ==
  IF Len(s) < 2 THEN s
  ELSE IF IsSpace(s[1]) /\ IsSpace(s[2]) THEN collapse_spaces(Tail(s))
  ELSE <<s[1]>> \o collapse_spaces(Tail(s))
ClaimNorm(p) == lower(collapse_spaces(strip(p)))

\* C5 (as claimed): two parameter names that are equal after trimming,
\* whitespace-collapsing and case-folding get the same max target from the
\* same table, or none for both.
C5_LookupInsensitive ==
  \A i, j \in DOMAIN lookups :
    ClaimNorm(lookups[i].param) = ClaimNorm(lookups[j].param)
      => lookups[i].y = lookups[j].y

\* ------------------------------------------------------------ SpecMonthly
\* Lines 252-257: sort by Site ID, MonthStart, DateClean, then group by
\* (Site ID, MonthStart) and take last().
\* A row of the table: its index label, Type, Site ID, Parameter (texts or
\* Null), Result (a float or NoneV), DateClean and MonthStart (Ts or NaT).
Row(i, ty, si, pa, re, dc, ms) ==
  [idx |-> i, Type |-> ty, Site |-> si, Parameter |-> pa, Result |-> re,
   DateClean |-> dc, MonthStart |-> ms]

\* the texts of the model in sorted() order
TextOrder == <<"A", "B", "Fe", "T1", "T2", "pH">>
TextRank(x) == IF x = Null THEN Len(TextOrder) + 1 ELSE IndexOf(TextOrder, x)

\* -1, 0, 1 as a text column orders two values, NaN last
cmp_text(a, b) ==
  IF TextRank(a) < TextRank(b) THEN -1 ELSE IF TextRank(a) > TextRank(b) THEN 1 ELSE 0
\* -1, 0, 1 as a datetime column orders two values, NaT last
cmp_ts(a, b) ==
  IF a = b THEN 0
  ELSE IF a = NaT THEN 1
  ELSE IF b = NaT THEN -1
  ELSE IF a.n < b.n THEN -1 ELSE IF a.n > b.n THEN 1 ELSE 0

\* the sort key without DateClean
sort_less_no_date(a, b) ==
  \/ cmp_text(a.Site, b.Site) < 0
  \/ cmp_text(a.Site, b.Site) = 0 /\ cmp_ts(a.MonthStart, b.MonthStart) < 0

\* a sorts strictly before b under ["Site ID", "MonthStart", "DateClean"]
sort_less(a, b) ==
  \/ cmp_text(a.Site, b.Site) < 0
  \/ cmp_text(a.Site, b.Site) = 0 /\ cmp_ts(a.MonthStart, b.MonthStart) < 0
  \/ /\ cmp_text(a.Site, b.Site) = 0 /\ cmp_ts(a.MonthStart, b.MonthStart) = 0
     /\ cmp_ts(a.DateClean, b.DateClean) < 0

\* x put after every row that does not sort after it (the sort is stable)
RECURSIVE insert_sorted(_, _)
insert_sorted(s, x) ==
  IF s = <<>> THEN <<x>>
  ELSE IF sort_less(x, s[Len(s)]) THEN insert_sorted(SubSeq(s, 1, Len(s) - 1), x) \o <<s[Len(s)]>>
  ELSE s \o <<x>>

RECURSIVE sort_values(_)
sort_values(s) ==
  IF s = <<>> THEN <<>> ELSE insert_sorted(sort_values(SubSeq(s, 1, Len(s) - 1)), s[Len(s)])

\* GroupBy.last() of one column: the last value that is not null
RECURSIVE last_valid(_, _)
last_valid(vals, null) ==
  IF vals = <<>> THEN null
  ELSE IF vals[Len(vals)] # null THEN vals[Len(vals)]
  ELSE last_valid(SubSeq(vals, 1, Len(vals) - 1), null)

\* groupby drops the rows whose key holds a null (dropna=True)
has_group_key(r) == r.Site # Null /\ r.MonthStart # NaT

\* one output row of groupby(["Site ID", "MonthStart"]).last()
group_last(rows) ==
  LET col(F(_)) == [i \in DOMAIN rows |-> F(rows[i])]
      ty(r) == r.Type
      pa(r) == r.Parameter
      re(r) == r.Result
      dc(r) == r.DateClean
  IN Row(0, last_valid(col(ty), Null), rows[1].Site, last_valid(col(pa), Null),
         last_valid(col(re), NoneV), last_valid(col(dc), NaT), rows[1].MonthStart)

\* the groups of a sorted table, in key order
RECURSIVE group_by_last(_)
group_by_last(sorted) ==
  IF sorted = <<>> THEN <<>>
  ELSE LET first == sorted[1]
           same(r) == r.Site = first.Site /\ r.MonthStart = first.MonthStart
           other(r) == ~same(r)
       IN (IF has_group_key(first) THEN <<group_last(SelectSeq(sorted, same))>> ELSE <<>>)
          \o group_by_last(SelectSeq(sorted, other))

\* lines 253-257
monthly_of(rows) ==
  IF rows = <<>> THEN <<>> ELSE group_by_last(sort_values(rows))

\* line 141: dt.to_period("M").dt.to_timestamp()
month_floor(ts) == IF ts = NaT THEN NaT ELSE Ts(ts.n - (CivilOf(ts.n).d - 1))

RECURSIVE seq_min(_)
seq_min(s) ==
  IF s = <<>> THEN NaT
  ELSE LET rest == seq_min(Tail(s))
       IN IF s[1] = NaT THEN rest
          ELSE IF rest = NaT \/ s[1].n < rest.n THEN s[1] ELSE rest
RECURSIVE seq_max(_)
seq_max(s) ==
  IF s = <<>> THEN NaT
  ELSE LET rest == seq_max(Tail(s))
       IN IF s[1] = NaT THEN rest
          ELSE IF rest = NaT \/ s[1].n > rest.n THEN s[1] ELSE rest
month_starts(rows) == [i \in DOMAIN rows |-> rows[i].MonthStart]

R71 == NormFloat(71, -1)
R74 == NormFloat(74, -1)
Jan5 == SerialOf(2024, 1, 5)
Jan20 == SerialOf(2024, 1, 20)
Feb3 == SerialOf(2024, 2, 3)

\* rows of one Type and Parameter with a date each, as the filters leave them
MonthlyRows ==
  { [Site |-> si, Result |-> re, DateClean |-> Ts(d)] :
      si \in {Null, "A", "B"}, re \in {NoneV, R71, R74}, d \in {Jan5, Jan20, Feb3} }
with_index(rows) ==
  [i \in DOMAIN rows |->
     Row(i, "T1", rows[i].Site, "pH", rows[i].Result, rows[i].DateClean,
         month_floor(rows[i].DateClean))]

\* The script after its filter step, in a run with no site selected and the
\* month range taken from the rows: any such rows can be the filter's output.
InitMonthly ==
  /\ \E rows \in UNION {[1..n -> MonthlyRows] : n \in 0..MaxRows} :
       /\ subset2 = with_index(rows)
       /\ data = with_index(rows)
  /\ pc = "aggregate"
  /\ sheet = NoSheet
  /\ type_sel = "T1" /\ parameter_sel = "pH" /\ sites_sel = {}
  /\ date_range = [k |-> "single", s |-> 0, e |-> 0]
  /\ start_d = seq_min(month_starts(subset2))
  /\ end_d = seq_max(month_starts(subset2))
  /\ monthly = <<>>
  /\ failures = {}
  /\ IdleParse /\ IdleCols /\ IdleTargets

\* lines 252-257
Aggregate ==
  /\ pc = "aggregate"
  /\ monthly' = monthly_of(subset2)
  /\ pc' = "plot"
  /\ UNCHANGED <<sheet, data, selVars, start_d, end_d, subset2, failures,
                 parseVars, colVars, targetVars>>

NextMonthly == Aggregate

SpecMonthly == InitMonthly /\ [][NextMonthly]_vars

Aggregated == pc \in {"plot", "done"}
SameGroup(a, b) == a.Site = b.Site /\ a.MonthStart = b.MonthStart
GroupOf(r) == {i \in DOMAIN subset2 : SameGroup(subset2[i], r)}
\* the row of a group that wins: the latest DateClean, the last in input order
\* among equals
Winner(g) ==
  CHOOSE w \in g :
    \A i \in g : \/ cmp_ts(subset2[i].DateClean, subset2[w].DateClean) < 0
                 \/ cmp_ts(subset2[i].DateClean, subset2[w].DateClean) = 0 /\ i <= w

\* C1 (as amended): the aggregation emits exactly one row per distinct
\* (site_id, month_start) of its input whose site_id is present, no other row,
\* and that row's sample_date is the latest sample_date of the group; the rows
\* with no Site ID are dropped by the group-by.
C1_OneRowPerSitedGroup ==
  Aggregated =>
    /\ \A i \in DOMAIN subset2 :
         subset2[i].Site # Null =>
           /\ Cardinality({j \in DOMAIN monthly : SameGroup(monthly[j], subset2[i])}) = 1
           /\ \A j \in DOMAIN monthly :
                SameGroup(monthly[j], subset2[i])
                  => cmp_ts(subset2[i].DateClean, monthly[j].DateClean) <= 0
    /\ \A j \in DOMAIN monthly :
         /\ monthly[j].Site # Null
         /\ \E i \in DOMAIN subset2 :
              SameGroup(monthly[j], subset2[i]) /\ subset2[i].DateClean = monthly[j].DateClean

\* C1's case: a group of two rows, the later one first in the input, is
\* emitted once with the later date, beside a row with no Site ID
C1_Witness ==
  /\ Aggregated
  /\ Len(subset2) = 3 /\ Len(monthly) = 1
  /\ subset2[1].Site = "A" /\ subset2[2].Site = "A" /\ subset2[3].Site = Null
  /\ subset2[1].DateClean = Ts(Jan20) /\ subset2[2].DateClean = Ts(Jan5)
  /\ monthly[1].DateClean = Ts(Jan20)

\* C1 (as claimed): exactly one row per distinct (site_id, month_start) pair
\* present in the input, with the group's latest sample_date.
C1_OneRowPerGroup ==
  Aggregated =>
    \A i \in DOMAIN subset2 :
      /\ Cardinality({j \in DOMAIN monthly : SameGroup(monthly[j], subset2[i])}) = 1
      /\ \A j \in DOMAIN monthly :
           SameGroup(monthly[j], subset2[i])
             => monthly[j].DateClean = subset2[Winner(GroupOf(subset2[i]))].DateClean

\* C2 (as claimed): the result emitted for a group is the result of the row
\* that wins the selection; when that row's result is absent, so is the
\* emitted one.
C2_ResultOfWinner ==
  Aggregated =>
    \A j \in DOMAIN monthly :
      monthly[j].Result = subset2[Winner(GroupOf(monthly[j]))].Result

\* ---------------------------------------------------------------- SpecRun
\* One run of the script, top to bottom, and the rerun Streamlit makes on
\* an interaction.
Label(r) ==
  CASE r = "type" -> TypeCandidates[1]
    [] r = "site" -> SiteCandidates[1]
    [] r = "param" -> ParamCandidates[1]
    [] r = "result" -> ResultCandidates[1]
    [] r = "date" -> DateCandidates[1]
SheetRoles == <<"type", "site", "param", "result", "date">>
OtherLabel == <<"C", "o", "m", "m", "e", "n", "t", "s">>
FullHeader == [i \in DOMAIN SheetRoles |-> Label(SheetRoles[i])]
\* the header with the column of one role under a label no candidate equals
HeaderWithout(r) ==
  [i \in DOMAIN SheetRoles |-> IF SheetRoles[i] = r THEN OtherLabel ELSE Label(SheetRoles[i])]

\* the column of a raw row that load_excel keeps for a role: Null / NoneCell
\* when the role has no column
text_column(found, v) == IF found = NoCol THEN Null ELSE v
cell_column(found, v) == IF found = NoCol THEN NoneCell ELSE v

\* lines 122-149, one row; Result is parse_result_to_float of the cell (the
\* cells of the model do not make it raise)
load_row(found, raw, i, dc) ==
  Row(i, text_column(found.type, raw.Type), text_column(found.site, raw.Site),
      text_column(found.param, raw.Parameter),
      parse_result_to_float(cell_column(found.result, raw.Result)),
      dc, month_floor(dc))

\* the tables load_excel may return for a sheet: one per outcome of
\* parse_date_any on its date cells
loaded_tables(sh) ==
  LET found == detect_roles(drop_duplicated(sh.header))
      dates(i) == parse_date_any(cell_column(found.date, sh.rows[i].Date))
  IN { [i \in DOMAIN sh.rows |-> load_row(found, sh.rows[i], i, dcs[i])] :
         dcs \in { f \in [DOMAIN sh.rows -> UNION {dates(i) : i \in DOMAIN sh.rows}] :
                     \A i \in DOMAIN sh.rows : f[i] \in dates(i) } }

\* a fetch whose failure is swallowed
fetch_never_halts(outcome) == FALSE

\* _http_get: raise_for_status() ends the run on a failed fetch
fetch_halts(outcome) == outcome # "ok"
\* load_targets wraps its fetch in try/except and returns None
targets_fetch_halts(outcome) == FALSE
\* lines 210-211: st.stop() when there is no parameter to select
stops_without_parameter(params) == params = {}

\* df[col].dropna().unique()
column_values(rows, col) == {rows[i][col] : i \in DOMAIN rows} \ {Null}

\* lines 199-204
subset0_of(rows, tsel) ==
  LET of_type(r) == r.Type = tsel
      kept == IF tsel = Null THEN rows ELSE SelectSeq(rows, of_type)
  IN IF kept = <<>> THEN rows ELSE kept
\* line 213
subset1_of(rows, tsel, psel) ==
  LET of_param(r) == r.Parameter = psel
  IN SelectSeq(subset0_of(rows, tsel), of_param)

\* lines 221-226
min_month(rows, s1) ==
  IF seq_min(month_starts(s1)) # NaT THEN seq_min(month_starts(s1)) ELSE seq_min(month_starts(rows))
max_month(rows, s1) ==
  IF seq_max(month_starts(s1)) # NaT THEN seq_max(month_starts(s1)) ELSE seq_max(month_starts(rows))

\* the days the viewer may pick in the month range widget
PickDays == {SerialOf(2024, 1, 1), SerialOf(2024, 1, 15), SerialOf(2024, 2, 1)}
\* st.date_input: a pair within [min_value, max_value], or a single date
\* while the viewer is half way through picking
date_inputs(lo, hi) ==
  LET days == {d \in PickDays : lo.n <= d /\ d <= hi.n}
  IN {[k |-> "single", s |-> 0, e |-> 0]}
     \cup { [k |-> "pair", s |-> p[1], e |-> p[2]] :
              p \in {q \in days \X days : q[1] <= q[2]} }

\* the date filter keeping the rows it cannot compare
in_range_or_nat(ms, lo, hi) ==
  ms = NaT \/ lo = NaT \/ hi = NaT \/ (lo.n <= ms.n /\ ms.n <= hi.n)

\* line 250: comparisons with NaT are False
in_range(ms, lo, hi) ==
  ms # NaT /\ lo # NaT /\ hi # NaT /\ lo.n <= ms.n /\ ms.n <= hi.n

\* isin(sites_sel) applied even when nothing is selected
site_filtered_always(s1, ssel) ==
  LET chosen(r) == r.Site \in ssel
  IN SelectSeq(s1, chosen)

\* lines 238-240
site_filtered(s1, ssel) ==
  LET chosen(r) == r.Site \in ssel
  IN IF ssel # {} THEN SelectSeq(s1, chosen) ELSE s1
\* lines 243-248
start_of(rows, dr) == IF dr.k = "pair" THEN Ts(dr.s) ELSE seq_min(month_starts(rows))
end_of(rows, dr) == IF dr.k = "pair" THEN Ts(dr.e) ELSE seq_max(month_starts(rows))
\* line 250
date_filtered(rows, lo, hi) ==
  LET inside(r) == in_range(r.MonthStart, lo, hi)
  IN SelectSeq(rows, inside)

RawRows ==
  { [Type |-> ty, Site |-> si, Parameter |-> pa, Result |-> re, Date |-> da] :
      ty \in {"T1", "T2"}, si \in {"A", "B"}, pa \in {"pH", "Fe"},
      re \in {StrCell(<<"7", ".", "1">>)},
      da \in {NaNCell, IntCell(Jan20, 0),
              StrCell(<<"0", "3", "/", "0", "2", "/", "2", "0", "2", "4">>)} }

Headers == {FullHeader} \cup {HeaderWithout(r) : r \in Range(SheetRoles)}

StartOfRun ==
  /\ pc = "load" /\ data = <<>>
  /\ type_sel = Null /\ parameter_sel = Null /\ sites_sel = {} /\ date_range = NoRange
  /\ start_d = NaT /\ end_d = NaT /\ subset2 = <<>> /\ monthly = <<>> /\ failures = {}

\* rows of one Type and Parameter, for the sheets that lack a column
PlainRows == {r \in RawRows : r.Type = "T1" /\ r.Parameter = "pH"}

\* A sheet with every column and any rows, or a sheet with one column under
\* a label that is no candidate and rows of one Type and Parameter.
InitRun ==
  /\ \/ \E rows \in UNION {[1..n -> RawRows] : n \in 0..MaxSheetRows} :
          sheet = [header |-> FullHeader, rows |-> rows]
     \/ \E h \in Headers, rows \in UNION {[1..n -> PlainRows] : n \in 0..MaxSheetRows} :
          sheet = [header |-> h, rows |-> rows]
  /\ StartOfRun
  /\ IdleParse /\ IdleCols /\ IdleTargets

missing_columns(sh) ==
  LET found == detect_roles(drop_duplicated(sh.header))
  IN {r \in Range(SheetRoles) : found[r] = NoCol}

\* line 141 on a column with no row: the mapped column may not be
\* datetime-like, and .dt then raises
dt_accessor_outcomes(sh) ==
  IF sh.rows = <<>> /\ "date" \notin missing_columns(sh) THEN {"targets", "halted"}
  ELSE {"targets"}

\* data = load_excel(), line 182: the fetch, then lines 110-151
LoadExcel ==
  /\ pc = "load"
  /\ \E outcome \in {"ok", "http_error"} :
       IF fetch_halts(outcome)
       THEN /\ pc' = "halted"
            /\ failures' = failures \cup {"fetch"}
            /\ data' = data
       ELSE /\ pc' \in dt_accessor_outcomes(sheet)
            /\ failures' = failures \cup IF outcome = "ok" THEN missing_columns(sheet)
                                        ELSE missing_columns(sheet) \cup {"fetch"}
            /\ data' \in loaded_tables(sheet)
  /\ UNCHANGED <<sheet, selVars, start_d, end_d, subset2, monthly,
                 parseVars, colVars, targetVars>>

\* targets = load_targets(), line 183
LoadTargetsStep ==
  /\ pc = "targets"
  /\ \E outcome \in {"ok", "http_error"} :
       /\ pc' = IF targets_fetch_halts(outcome) THEN "halted" ELSE "sidebar"
       /\ failures' = IF outcome = "ok" THEN failures ELSE failures \cup {"targets_fetch"}
  /\ UNCHANGED <<sheet, data, selVars, start_d, end_d, subset2, monthly,
                 parseVars, colVars, targetVars>>

\* lines 191-233: the widgets; with no month at all the date widget is given
\* NaT bounds and either raises or returns no pair
Sidebar ==
  /\ pc = "sidebar"
  /\ \E tsel \in (IF column_values(data, "Type") = {} THEN {Null}
                  ELSE column_values(data, "Type")) :
       LET params == column_values(subset0_of(data, tsel), "Parameter") IN
       IF stops_without_parameter(params)
       THEN /\ pc' = "stopped"
            /\ type_sel' = tsel
            /\ failures' = failures \cup {"no_parameter"}
            /\ UNCHANGED <<parameter_sel, sites_sel, date_range>>
       ELSE \E psel \in (IF params = {} THEN {Null} ELSE params) :
              LET s1 == subset1_of(data, tsel, psel)
                  lo == min_month(data, s1)
                  hi == max_month(data, s1)
              IN /\ type_sel' = tsel
                 /\ parameter_sel' = psel
                 /\ failures' = IF params = {} THEN failures \cup {"no_parameter"} ELSE failures
                 /\ sites_sel' \in SUBSET column_values(s1, "Site")
                 /\ IF lo = NaT
                    THEN \/ pc' = "halted" /\ date_range' = NoRange
                         \/ pc' = "filter" /\ date_range' = [k |-> "single", s |-> 0, e |-> 0]
                    ELSE pc' = "filter" /\ date_range' \in date_inputs(lo, hi)
  /\ UNCHANGED <<sheet, data, start_d, end_d, subset2, monthly,
                 parseVars, colVars, targetVars>>

\* lines 238-250
Filter ==
  /\ pc = "filter"
  /\ LET s2 == site_filtered(subset1_of(data, type_sel, parameter_sel), sites_sel)
     IN /\ start_d' = start_of(s2, date_range)
        /\ end_d' = end_of(s2, date_range)
        /\ subset2' = date_filtered(s2, start_of(s2, date_range), end_of(s2, date_range))
  /\ pc' = "aggregate"
  /\ UNCHANGED <<sheet, data, selVars, monthly, failures, parseVars, colVars, targetVars>>

\* lines 259-347: the chart is built and drawn
Plot ==
  /\ pc = "plot"
  /\ pc' = "done"
  /\ UNCHANGED <<sheet, data, selVars, start_d, end_d, subset2, monthly, failures,
                 parseVars, colVars, targetVars>>

\* an interaction reruns the script from its first line
Rerun ==
  /\ pc \in {"done", "stopped", "halted"}
  /\ pc' = "load" /\ data' = <<>>
  /\ type_sel' = Null /\ parameter_sel' = Null /\ sites_sel' = {} /\ date_range' = NoRange
  /\ start_d' = NaT /\ end_d' = NaT /\ subset2' = <<>> /\ monthly' = <<>> /\ failures' = {}
  /\ UNCHANGED <<sheet, parseVars, colVars, targetVars>>

NextRun == LoadExcel \/ LoadTargetsStep \/ Sidebar \/ Filter \/ Aggregate \/ Plot \/ Rerun

SpecRun == InitRun /\ [][NextRun]_vars

RenderReached == pc \in {"plot", "done"}
Filtered == pc \in {"aggregate", "plot", "done"}

\* C7 (as amended): a run in which the spreadsheet's fetch failed, or in
\* which no parameter could be selected (a sheet without a parameter column
\* included), never reaches the plot step.  A failed fetch of the targets
\* file and a missing site, result or type column do not stop the run.
C7_FatalFailuresHalt ==
  RenderReached => failures \cap {"fetch", "param", "no_parameter"} = {}

\* C7's case: the spreadsheet's fetch failed and the run halted there
C7_Witness == pc = "halted" /\ "fetch" \in failures /\ data = <<>>

\* C7 (as claimed): after a failed HTTP fetch, with a date, result, site or
\* parameter column missing, or with no parameter to select, the plot step is
\* never reached.
C7_AnyLoadFailureHalts ==
  RenderReached =>
    failures \cap {"fetch", "targets_fetch", "date", "result", "site", "param",
                   "no_parameter"} = {}

\* C9: MonthStart is the first day of DateClean's calendar month when
\* DateClean is present and absent when it is absent; no row with an absent
\* MonthStart is in the input or the output of the monthly aggregation.
C9_MonthStartInvariant ==
  /\ \A i \in DOMAIN data :
       IF data[i].DateClean = NaT THEN data[i].MonthStart = NaT
       ELSE /\ data[i].MonthStart # NaT
            /\ CivilOf(data[i].MonthStart.n).d = 1
            /\ CivilOf(data[i].MonthStart.n).mo = CivilOf(data[i].DateClean.n).mo
            /\ CivilOf(data[i].MonthStart.n).y = CivilOf(data[i].DateClean.n).y
  /\ \A j \in DOMAIN subset2 : subset2[j].MonthStart # NaT
  /\ \A j \in DOMAIN monthly : monthly[j].MonthStart # NaT

\* C9's case: a row of the selected parameter has no date, another has one,
\* and the aggregation has run on the rows the filters kept
C9_Witness ==
  /\ pc = "plot"
  /\ \E i \in DOMAIN data : data[i].DateClean = NaT /\ data[i].Parameter = parameter_sel
  /\ \E i \in DOMAIN data : data[i].DateClean = Ts(Jan20) /\ data[i].MonthStart = Ts(SerialOf(2024, 1, 1))
  /\ subset2 # <<>> /\ monthly # <<>>

InRows(r, rows) == \E j \in DOMAIN rows : rows[j] = r

\* C10: a loaded row reaches the monthly aggregation exactly when its
\* Parameter is the selected one, it passes the Type filter, its MonthStart
\* lies in [start, end], and the selected site set is empty or holds its Site.
C10_FilterExactly ==
  Filtered =>
    /\ \A j \in DOMAIN subset2 : InRows(subset2[j], data)
    /\ \A i \in DOMAIN data :
         InRows(data[i], subset2) <=>
           /\ data[i].Parameter = parameter_sel
           /\ (type_sel = Null \/ data[i].Type = type_sel)
           /\ data[i].MonthStart # NaT /\ start_d # NaT /\ end_d # NaT
           /\ start_d.n <= data[i].MonthStart.n /\ data[i].MonthStart.n <= end_d.n
           /\ (sites_sel = {} \/ data[i].Site \in sites_sel)

\* C10's case: no site is selected and a row passes; another row of the same
\* Type and Parameter, sampled inside the range, is left out because its
\* MonthStart is before the range's start
C10_Witness ==
  /\ pc = "aggregate" /\ sites_sel = {} /\ subset2 # <<>>
  /\ \E i \in DOMAIN data :
       /\ data[i].Parameter = parameter_sel /\ data[i].Type = type_sel
       /\ data[i].DateClean # NaT
       /\ start_d.n <= data[i].DateClean.n /\ data[i].DateClean.n <= end_d.n
       /\ ~InRows(data[i], subset2)

====
